---- MODULE Spec2Model ----
(***************************************************************************)
(* State-machine model of the splash-screen plugin of src/src/lib.rs.     *)
(*                                                                         *)
(* Time is counted in quarters of a second (the greatest common unit of    *)
(* the stage durations the source configures: 0.25 s = 1).                 *)
(* One Tick is one frame of the Update stage in a splash state: the two    *)
(* systems splash_skip and splash_fade both run, and their commands are    *)
(* applied at the end of the stage.  A pending NextState is consumed by    *)
(* the state-transition stage at the start of the following frame, which   *)
(* runs the exit systems of the old state and the enter systems of the     *)
(* new one.                                                                *)
(***************************************************************************)
EXTENDS Integers, Sequences, FiniteSets, TLC

\* ------------------------------------------------------------------ bounds
MaxDelta == 2
MaxBatch == 1
MaxItems == 2
MaxDur == 2

\* ------------------------------------------------- configured durations
\* SplashFade::new(0.0, 0.0, 1.25, 1.5)
IyesHeadWait == 0
IyesHeadIntro == 0
IyesHeadOn == 5
IyesHeadFade == 6
\* SplashFade::new(0.25, 0.75, 0.25, 1.75)
IyesTextWait == 1
IyesTextIntro == 3
IyesTextOn == 1
IyesTextFade == 7
\* SplashFade::new(0.0, 0.5, 1.0, 1.5)
BevyWait == 0
BevyIntro == 2
BevyOn == 4
BevyFade == 6

VARIABLES
    state,      \* CurrentState<AppGlobalState>
    nextState,  \* the NextState resource: "None" or the requested state
    splashNext, \* the SplashNext resource: "None" or its state
    splashes,   \* TRUE iff the Splashes resource exists
    cameras,    \* number of camera entities carrying SplashCleanup
    sprites,    \* the sprite entities carrying SplashCleanup and SplashFade
    skippable,  \* the plugin's `skippable` field
    panicked,   \* a system asked for a resource that does not exist
    requests,   \* NextState insertions of the last frame, in application order
    reqCount,   \* NextState insertions by the splash systems in this run
    clock,      \* sum of the deltas of the ticks of this run of a splash state
    pre,        \* the sprites as they were before the last frame
    last,       \* what the last step was, with the frame's delta and input
    report,     \* progress-tracked variant: the completion last reported
    skipped,    \* progress-tracked variant: the user has skipped this run
    otherWork,  \* progress-tracked variant: other tracked work still to do
    alphas      \* the alpha of the first sprite after each frame of a ramp run

vars == <<state, nextState, splashNext, splashes, cameras, sprites, skippable,
          panicked, requests, reqCount, clock, pre, last,
          report, skipped, otherWork, alphas>>

progressVars == <<report, skipped, otherWork>>

None == "None"
AppGlobalState == {"AssetsLoading", "SplashIyes", "SplashBevy", "MainMenu"}
SplashStates == {"SplashIyes", "SplashBevy"}

Deltas == 0..MaxDelta

\* ------------------------------------------------------------ input events
KeyboardInput == [src : {"kbd"}, type : {"Pressed", "Released"}, value : {0}]
MouseButtonInput == [src : {"mouse"}, type : {"Pressed", "Released"}, value : {0}]
GamepadEvent ==
    [src : {"gamepad"}, type : {"ButtonChanged"}, value : {0, 1}]
        \cup [src : {"gamepad"}, type : {"AxisChanged"}, value : {0}]
TouchInput == [src : {"touch"}, type : {"Started", "Moved", "Ended"}, value : {0}]
InputEvent == KeyboardInput \cup MouseButtonInput \cup GamepadEvent \cup TouchInput

Batches == {b \in SUBSET InputEvent : Cardinality(b) <= MaxBatch}

\* ------------------------------------------------------------------ Timer
\* Timer::from_seconds(d, false): non-repeating, nothing elapsed, not finished.
TimerNew(d) == [duration |-> d, elapsed |-> 0, finished |-> FALSE]

\* Variant of TimerTick: the elapsed time is clamped but `finished` is never set.
TimerTick_NeverFinished(t, delta) ==
    IF t.elapsed + delta >= t.duration
    THEN [t EXCEPT !.elapsed = t.duration]
    ELSE [t EXCEPT !.elapsed = t.elapsed + delta]

\* Timer::tick of a non-repeating timer: a finished timer stays as it is;
\* otherwise the delta is added, `finished` is set once elapsed >= duration
\* and the elapsed time is clamped to the duration.
TimerTick(t, delta) ==
    IF t.finished THEN t
    ELSE IF t.elapsed + delta >= t.duration
         THEN [t EXCEPT !.elapsed = t.duration, !.finished = TRUE]
         ELSE [t EXCEPT !.elapsed = t.elapsed + delta]

RECURSIVE GCD(_, _)
GCD(a, b) == IF b = 0 THEN a ELSE GCD(b, a % b)

\* An f32 quotient n/d as a reduced fraction <<n, d>>; 0/0 is NaN, <<0, 0>>.
Frac(n, d) ==
    IF d = 0 THEN <<0, 0>>
    ELSE <<n \div GCD(n, d), d \div GCD(n, d)>>

NaN == <<0, 0>>
\* Timer::percent and Timer::percent_left
Percent(t) == Frac(t.elapsed, t.duration)

\* Variant of PercentLeft: the fraction elapsed instead of the fraction left.
PercentLeft_Elapsed(t) == Percent(t)

PercentLeft(t) == Frac(t.duration - t.elapsed, t.duration)

\* ------------------------------------------------------------- SplashFade
SplashFadeNew(wait, intro, on, fade) ==
    [timer_wait |-> TimerNew(wait), timer_intro |-> TimerNew(intro),
     timer_on |-> TimerNew(on), timer_fade |-> TimerNew(fade)]

\* A sprite entity: its SplashFade component and its Sprite's colour alpha
\* (Sprite::default() is white, alpha 1).
SpriteNew(wait, intro, on, fade) ==
    [fade |-> SplashFadeNew(wait, intro, on, fade), alpha |-> <<1, 1>>]

\* Variant of FadeItemStep: the last branch forgets `all_finished = false`.
FadeItemStep_FadeNotBusy(s, delta) ==
    IF s.fade.timer_wait.duration > 0 /\ ~s.fade.timer_wait.finished
    THEN [fade |-> [s.fade EXCEPT !.timer_wait = TimerTick(@, delta)],
          alpha |-> <<0, 1>>, busy |-> TRUE]
    ELSE IF s.fade.timer_intro.duration > 0 /\ ~s.fade.timer_intro.finished
    THEN [fade |-> [s.fade EXCEPT !.timer_intro = TimerTick(@, delta)],
          alpha |-> Percent(TimerTick(s.fade.timer_intro, delta)), busy |-> TRUE]
    ELSE IF ~s.fade.timer_on.finished
    THEN [fade |-> [s.fade EXCEPT !.timer_on = TimerTick(@, delta)],
          alpha |-> <<1, 1>>, busy |-> TRUE]
    ELSE IF ~s.fade.timer_fade.finished
    THEN [fade |-> [s.fade EXCEPT !.timer_fade = TimerTick(@, delta)],
          alpha |-> PercentLeft(TimerTick(s.fade.timer_fade, delta)), busy |-> FALSE]
    ELSE [fade |-> s.fade, alpha |-> s.alpha, busy |-> FALSE]

\* Variant of FadeItemStep: the fade branch clears `all_finished` only while
\* the fade timer is still running after its tick.
FadeItemStep_Eager(s, delta) ==
    IF s.fade.timer_wait.duration > 0 /\ ~s.fade.timer_wait.finished
    THEN [fade |-> [s.fade EXCEPT !.timer_wait = TimerTick(@, delta)],
          alpha |-> <<0, 1>>, busy |-> TRUE]
    ELSE IF s.fade.timer_intro.duration > 0 /\ ~s.fade.timer_intro.finished
    THEN [fade |-> [s.fade EXCEPT !.timer_intro = TimerTick(@, delta)],
          alpha |-> Percent(TimerTick(s.fade.timer_intro, delta)), busy |-> TRUE]
    ELSE IF ~s.fade.timer_on.finished
    THEN [fade |-> [s.fade EXCEPT !.timer_on = TimerTick(@, delta)],
          alpha |-> <<1, 1>>, busy |-> TRUE]
    ELSE IF ~s.fade.timer_fade.finished
    THEN [fade |-> [s.fade EXCEPT !.timer_fade = TimerTick(@, delta)],
          alpha |-> PercentLeft(TimerTick(s.fade.timer_fade, delta)),
          busy |-> ~TimerTick(s.fade.timer_fade, delta).finished]
    ELSE [fade |-> s.fade, alpha |-> s.alpha, busy |-> FALSE]

\* Variant of FadeItemStep: the fade timer is looked at before the hold timer.
FadeItemStep_FadeBeforeOn(s, delta) ==
    IF s.fade.timer_wait.duration > 0 /\ ~s.fade.timer_wait.finished
    THEN [fade |-> [s.fade EXCEPT !.timer_wait = TimerTick(@, delta)],
          alpha |-> <<0, 1>>, busy |-> TRUE]
    ELSE IF s.fade.timer_intro.duration > 0 /\ ~s.fade.timer_intro.finished
    THEN [fade |-> [s.fade EXCEPT !.timer_intro = TimerTick(@, delta)],
          alpha |-> Percent(TimerTick(s.fade.timer_intro, delta)), busy |-> TRUE]
    ELSE IF ~s.fade.timer_fade.finished
    THEN [fade |-> [s.fade EXCEPT !.timer_fade = TimerTick(@, delta)],
          alpha |-> PercentLeft(TimerTick(s.fade.timer_fade, delta)), busy |-> TRUE]
    ELSE IF ~s.fade.timer_on.finished
    THEN [fade |-> [s.fade EXCEPT !.timer_on = TimerTick(@, delta)],
          alpha |-> <<1, 1>>, busy |-> TRUE]
    ELSE [fade |-> s.fade, alpha |-> s.alpha, busy |-> FALSE]

\* One iteration of the loop of splash_fade over one (sprite, fade) pair:
\* the new entity and whether the iteration cleared `all_finished`.
FadeItemStep(s, delta) ==
    IF s.fade.timer_wait.duration > 0 /\ ~s.fade.timer_wait.finished
    THEN [fade |-> [s.fade EXCEPT !.timer_wait = TimerTick(@, delta)],
          alpha |-> <<0, 1>>, busy |-> TRUE]
    ELSE IF s.fade.timer_intro.duration > 0 /\ ~s.fade.timer_intro.finished
    THEN [fade |-> [s.fade EXCEPT !.timer_intro = TimerTick(@, delta)],
          alpha |-> Percent(TimerTick(s.fade.timer_intro, delta)), busy |-> TRUE]
    ELSE IF ~s.fade.timer_on.finished
    THEN [fade |-> [s.fade EXCEPT !.timer_on = TimerTick(@, delta)],
          alpha |-> <<1, 1>>, busy |-> TRUE]
    ELSE IF ~s.fade.timer_fade.finished
    THEN [fade |-> [s.fade EXCEPT !.timer_fade = TimerTick(@, delta)],
          alpha |-> PercentLeft(TimerTick(s.fade.timer_fade, delta)), busy |-> TRUE]
    ELSE [fade |-> s.fade, alpha |-> s.alpha, busy |-> FALSE]

\* Variant of FadeLoop: the loop stops one entity short.
FadeLoop_SkipsLast(q, delta) ==
    [i \in 1..Len(q) |->
        IF i = Len(q) /\ Len(q) > 1
        THEN q[i]
        ELSE [fade |-> FadeItemStep(q[i], delta).fade,
              alpha |-> FadeItemStep(q[i], delta).alpha]]

\* The query loop of splash_fade: every entity is visited once.
FadeLoop(q, delta) ==
    [i \in 1..Len(q) |->
        [fade |-> FadeItemStep(q[i], delta).fade,
         alpha |-> FadeItemStep(q[i], delta).alpha]]

\* Variant of FadeAllDone: the `count > 0` test is missing.
FadeAllDone_NoCount(q, delta) ==
    \A i \in 1..Len(q) : ~FadeItemStep(q[i], delta).busy

\* Variant of FadeAllDone: `all_finished` is overwritten by each item, so the
\* last item visited decides.
FadeAllDone_LastItem(q, delta) ==
    /\ Len(q) > 0
    /\ ~FadeItemStep(q[Len(q)], delta).busy

\* The value of `all_finished && count > 0` after the loop.
FadeAllDone(q, delta) ==
    /\ \A i \in 1..Len(q) : ~FadeItemStep(q[i], delta).busy
    /\ Len(q) > 0

\* The commands splash_fade queues: NextState(next.0) when all is done.
FadeCommands(q, delta, next) ==
    IF FadeAllDone(q, delta)
    THEN <<[by |-> "splash_fade", target |-> next]>>
    ELSE <<>>

\* ------------------------------------------------------------ splash_skip
\* Variant of SkipDone: the loop over the touch events is missing.
SkipDone_NoTouch(batch) ==
    \/ \E ev \in batch : ev.src = "kbd" /\ ev.type = "Pressed"
    \/ \E ev \in batch : ev.src = "mouse" /\ ev.type = "Pressed"
    \/ \E ev \in batch : ev.src = "gamepad" /\ ev.type = "ButtonChanged"

\* The value of `done` after the four event loops.
SkipDone(batch) ==
    \/ \E ev \in batch : ev.src = "kbd" /\ ev.type = "Pressed"
    \/ \E ev \in batch : ev.src = "mouse" /\ ev.type = "Pressed"
    \/ \E ev \in batch : ev.src = "gamepad" /\ ev.type = "ButtonChanged"
    \/ \E ev \in batch : ev.src = "touch" /\ ev.type = "Started"

\* The commands splash_skip queues: NextState(AppGlobalState::MainMenu).
SkipCommands(batch) ==
    IF SkipDone(batch)
    THEN <<[by |-> "splash_skip", target |-> "MainMenu"]>>
    ELSE <<>>

\* -------------------------------------------------------------- frame step
\* The two systems of the ConditionSet have no ordering constraint, so their
\* command queues are applied in either order.
FrameCommands(skipCmds, fadeCmds) ==
    {skipCmds \o fadeCmds, fadeCmds \o skipCmds}

\* insert_resource(NextState(..)) applied in order: the last one stays.
ApplyNextState(old, cmds) ==
    IF cmds = <<>> THEN old ELSE cmds[Len(cmds)].target

\* Variant of TickEnabled: the systems still run in a frame whose NextState
\* is pending (the transition is applied a frame late).
TickEnabled_Late ==
    /\ ~panicked
    /\ state \in SplashStates

\* run_in_state(..): the two systems run in the Update stage of a frame whose
\* state is a splash state; a pending NextState has been consumed by the
\* state-transition stage before Update runs.
TickEnabled ==
    /\ ~panicked
    /\ state \in SplashStates
    /\ nextState = None

\* One frame of the Update stage: splash_skip and splash_fade both run on the
\* frame's input batch and delta, and their commands are applied.  `timed`
\* says whether the run clock of the observer follows the frame.
Frame(timed) ==
    /\ TickEnabled
    /\ \E delta \in Deltas :
        LET fadeCmds == FadeCommands(sprites, delta, splashNext)
            ticked == FadeLoop(sprites, delta)
        IN  \E batch \in Batches :
                /\ IF splashNext = None
                   THEN \* Res<SplashNext> of splash_fade is missing
                        /\ panicked' = TRUE
                        /\ UNCHANGED <<sprites, nextState, requests, reqCount>>
                   ELSE /\ \E cmds \in FrameCommands(SkipCommands(batch), fadeCmds) :
                            /\ requests' = cmds
                            /\ nextState' = ApplyNextState(nextState, cmds)
                            /\ reqCount' = reqCount + Len(cmds)
                        /\ sprites' = ticked
                        /\ UNCHANGED panicked
                /\ clock' = IF timed THEN clock + delta ELSE clock
                /\ pre' = sprites
                /\ last' = [op |-> "tick", delta |-> delta, batch |-> batch]
    /\ UNCHANGED <<state, splashNext, splashes, cameras, skippable, progressVars, alphas>>

Tick == Frame(TRUE)

\* ------------------------------------------------------ state transitions
\* splash_init_iyes / splash_init_bevy: what the enter system of `s` spawns.
EnterSprites(s) ==
    IF s = "SplashIyes"
    THEN <<SpriteNew(IyesHeadWait, IyesHeadIntro, IyesHeadOn, IyesHeadFade),
           SpriteNew(IyesTextWait, IyesTextIntro, IyesTextOn, IyesTextFade)>>
    ELSE IF s = "SplashBevy"
    THEN <<SpriteNew(BevyWait, BevyIntro, BevyOn, BevyFade)>>
    ELSE <<>>

\* insert_resource(SplashNext(..)) of the enter system of `s`.
EnterNext(s) ==
    IF s = "SplashIyes" THEN "SplashBevy"
    ELSE IF s = "SplashBevy" THEN "MainMenu"
    ELSE None

\* The exit systems of `s`: is the Splashes resource still there afterwards?
ExitSplashes(s, have) == IF s = "SplashBevy" THEN FALSE ELSE have

\* The state-transition stage: NextState is taken, the exit systems of the
\* current state run (despawn of every SplashCleanup entity, removal of
\* SplashNext, and for SplashBevy removal of Splashes), the state changes,
\* and the enter system of the new state runs.  The enter systems of the
\* splash states take Res<Splashes> and panic without it.
Transition ==
    /\ ~panicked
    /\ nextState # None
    /\ state' = nextState
    /\ nextState' = None
    /\ splashes' = IF state \in SplashStates THEN ExitSplashes(state, splashes)
                   ELSE splashes
    /\ IF nextState \in SplashStates /\ ~splashes'
       THEN /\ panicked' = TRUE
            /\ cameras' = IF state \in SplashStates THEN 0 ELSE cameras
            /\ sprites' = IF state \in SplashStates THEN <<>> ELSE sprites
            /\ splashNext' = IF state \in SplashStates THEN None ELSE splashNext
       ELSE /\ panicked' = FALSE
            /\ cameras' = (IF state \in SplashStates THEN 0 ELSE cameras)
                            + (IF nextState \in SplashStates THEN 1 ELSE 0)
            /\ sprites' = (IF state \in SplashStates THEN <<>> ELSE sprites)
                            \o EnterSprites(nextState)
            /\ splashNext' = IF nextState \in SplashStates THEN EnterNext(nextState)
                             ELSE IF state \in SplashStates THEN None
                             ELSE splashNext
    /\ requests' = <<>>
    /\ reqCount' = 0
    /\ clock' = 0
    /\ pre' = <<>>
    /\ last' = [op |-> "transition", delta |-> 0, batch |-> {}]
    /\ UNCHANGED <<skippable, progressVars, alphas>>

\* The host application (or another plugin) requests a state change itself.
HostRequest ==
    /\ ~panicked
    /\ nextState = None
    /\ \E s \in AppGlobalState :
        /\ nextState' = s
        /\ last' = [op |-> "host", delta |-> 0, batch |-> {}]
    /\ UNCHANGED <<state, splashNext, splashes, cameras, sprites, skippable,
                   panicked, requests, reqCount, clock, pre, progressVars, alphas>>

\* The application starts in AssetsLoading, which has put the Splashes
\* resource in place; the plugin is configured skippable or not.
Init ==
    /\ state = "AssetsLoading"
    /\ nextState = "SplashIyes"
    /\ splashNext = None
    /\ splashes = TRUE
    /\ cameras = 0
    /\ sprites = <<>>
    /\ skippable \in BOOLEAN
    /\ panicked = FALSE
    /\ requests = <<>>
    /\ reqCount = 0
    /\ clock = 0
    /\ pre = <<>>
    /\ last = [op |-> "init", delta |-> 0, batch |-> {}]
    /\ report = FALSE
    /\ skipped = FALSE
    /\ otherWork = 0
    /\ alphas = <<>>

Next == Tick \/ Transition \/ HostRequest

Spec == Init /\ [][Next]_vars

\* ===========================================================================
\* Properties
\* ===========================================================================

\* An item no branch of splash_fade's if-chain applies to: wait and intro are
\* finished or have duration 0, and the hold and fade timers are finished.
ItemFinished(s) ==
    /\ s.fade.timer_wait.duration = 0 \/ s.fade.timer_wait.finished
    /\ s.fade.timer_intro.duration = 0 \/ s.fade.timer_intro.finished
    /\ s.fade.timer_on.finished
    /\ s.fade.timer_fade.finished

AllItemsFinished(q) == \A i \in 1..Len(q) : ItemFinished(q[i])

RequestBy(sys) == \E i \in 1..Len(requests) : requests[i].by = sys

\* The inputs the plugin documents as skipping: a key press, a mouse-button
\* press, a gamepad-button press, a started touch.
PressOrStart(ev) ==
    \/ ev.src = "kbd" /\ ev.type = "Pressed"
    \/ ev.src = "mouse" /\ ev.type = "Pressed"
    \/ ev.src = "gamepad" /\ ev.type = "ButtonChanged" /\ ev.value = 1
    \/ ev.src = "touch" /\ ev.type = "Started"

\* The sum of the four stage durations of an item.
TotalDuration(s) ==
    s.fade.timer_wait.duration + s.fade.timer_intro.duration
        + s.fade.timer_on.duration + s.fade.timer_fade.duration

LongestTotal(q) ==
    CHOOSE m \in {TotalDuration(q[i]) : i \in 1..Len(q)} :
        \A i \in 1..Len(q) : TotalDuration(q[i]) <= m

Ticked == last.op = "tick" /\ ~panicked

\* C1: in every tick of an active splash phase a transition is requested if
\* and only if (there is at least one item and every item is finished when
\* the tick inspects it) or the skip system saw a skip input in that tick.
C1_FiringRule ==
    Ticked =>
        ((requests # <<>>) <=>
            ((Len(pre) > 0 /\ AllItemsFinished(pre)) \/ SkipDone(last.batch)))

\* C1 witness: a tick without skip input, with every item finished, in which
\* the transition is requested.
C1_Witness ==
    /\ Ticked
    /\ Len(pre) > 0 /\ AllItemsFinished(pre)
    /\ ~SkipDone(last.batch)
    /\ requests # <<>>

\* C2: a transition requested by the skip system targets the `next` state of
\* the splash that is active (the SplashNext resource).
C2_SkipTargetsNext ==
    Ticked =>
        \A i \in 1..Len(requests) :
            requests[i].by = "splash_skip" => requests[i].target = splashNext

\* C3 (as claimed): once completion or skip is detected in a tick, exactly one
\* transition request has been issued in the run.
C3_ExactlyOneRequest ==
    (Ticked /\ ((Len(pre) > 0 /\ AllItemsFinished(pre)) \/ SkipDone(last.batch)))
        => reqCount = 1

\* C3 (amended): all transition requests of a run are issued in one single
\* tick, one by each system that detected its condition (one for completion,
\* one for skip, two when both are detected in the same tick), and none in any
\* later tick.
C3_RequestsInOneTick ==
    /\ reqCount = Len(requests)
    /\ Ticked =>
        Len(requests) =
            (IF Len(pre) > 0 /\ AllItemsFinished(pre) THEN 1 ELSE 0)
                + (IF SkipDone(last.batch) THEN 1 ELSE 0)

\* C3 witness: completion and skip detected in the same tick.
C3_Witness ==
    /\ Ticked
    /\ Len(pre) > 0 /\ AllItemsFinished(pre)
    /\ SkipDone(last.batch)
    /\ reqCount = 2

\* C4: with skippable = false no input batch makes the skip system request a
\* transition.
C4_SkipDisabled ==
    (Ticked /\ ~skippable) => ~RequestBy("splash_skip")

\* C5: with skippable = true the skip system requests a transition in a tick
\* if and only if the tick's batch holds a press/start event.
C5_SkipIffPress ==
    (Ticked /\ skippable) =>
        (RequestBy("splash_skip") <=> \E ev \in last.batch : PressOrStart(ev))

\* C8 (as claimed): without skip input the transition is requested in the tick
\* in which the elapsed time reaches the largest total duration of the items.
C8_AtLongestTotal ==
    (Ticked /\ Len(pre) > 1 /\ ~SkipDone(last.batch)) =>
        ((requests # <<>>) <=>
            (clock >= LongestTotal(pre) /\ clock - last.delta < LongestTotal(pre)))

\* C8 (amended): without skip input the transition is requested in the first
\* tick that begins with every item finished, that is in a tick after the one
\* in which the slowest item's last timer ran out: the time elapsed before the
\* requesting tick is at least the largest total duration, and no request is
\* made in a tick that begins with an unfinished item.
C8_AfterLongestTotal ==
    (Ticked /\ Len(pre) > 1 /\ ~SkipDone(last.batch)) =>
        /\ (requests # <<>>) <=> AllItemsFinished(pre)
        /\ (requests # <<>>) => clock - last.delta >= LongestTotal(pre)

\* C8 witness: the two configured items, no skip, the request made by
\* splash_fade.
C8_Witness ==
    /\ Ticked
    /\ state = "SplashIyes"
    /\ Len(pre) = 2
    /\ ~SkipDone(last.batch)
    /\ RequestBy("splash_fade")
    /\ clock - last.delta >= LongestTotal(pre)

\* C9: after any transition nothing of the left splash remains, and a splash
\* state that is entered (again) has exactly its freshly spawned items, with
\* its own transition target.
C9_CleanReentry ==
    last.op = "transition" =>
        IF state \in SplashStates
        THEN /\ ~panicked
             /\ cameras = 1
             /\ sprites = EnterSprites(state)
             /\ splashNext = EnterNext(state)
        ELSE /\ cameras = 0
             /\ sprites = <<>>
             /\ splashNext = None

\* ---------------------------------------------------------------------------
\* splash_fade on its own, over any set of fade items: the query may hold any
\* number of entities whose SplashFade was built with any stage durations.
FadeDurations == {0, MaxDur}

FadeItemTypes ==
    {SpriteNew(w, i, o, f) : w \in FadeDurations, i \in FadeDurations,
                             o \in FadeDurations, f \in FadeDurations}

FadeQueries == UNION {[1..n -> FadeItemTypes] : n \in 0..MaxItems}

InitFade ==
    /\ state = "SplashBevy"
    /\ nextState = None
    /\ splashNext = "MainMenu"
    /\ splashes = TRUE
    /\ cameras = 1
    /\ sprites \in FadeQueries
    /\ skippable = TRUE
    /\ panicked = FALSE
    /\ requests = <<>>
    /\ reqCount = 0
    /\ clock = 0
    /\ pre = <<>>
    /\ last = [op |-> "init", delta |-> 0, batch |-> {}]
    /\ report = FALSE
    /\ skipped = FALSE
    /\ otherWork = 0
    /\ alphas = <<>>

\* One run of the system splash_fade with the frame's delta.
FadeTick ==
    /\ TickEnabled
    /\ \E delta \in Deltas :
        /\ sprites' = FadeLoop(sprites, delta)
        /\ requests' = FadeCommands(sprites, delta, splashNext)
        /\ nextState' = ApplyNextState(nextState, requests')
        /\ reqCount' = reqCount + Len(requests')
        /\ pre' = sprites
        /\ last' = [op |-> "tick", delta |-> delta, batch |-> {}]
    /\ UNCHANGED <<state, splashNext, splashes, cameras, skippable, panicked,
                   clock, progressVars, alphas>>

NextFade == FadeTick

SpecFade == InitFade /\ [][NextFade]_vars

\* C6: a tick over zero items never makes splash_fade request the transition.
C6_ZeroItemsNeverDone ==
    (Ticked /\ Len(pre) = 0) => (requests = <<>> /\ nextState = None)

\* C6 witness: a tick with a positive delta over zero items.
C6_Witness ==
    /\ Ticked
    /\ Len(pre) = 0
    /\ last.delta > 0

\* C7 (as claimed): with N >= 1 items a tick reports all done if and only if
\* every item is finished as of that tick, the tick in which the last timer
\* runs out included.
C7_DoneSameTick ==
    (Ticked /\ Len(pre) >= 1) =>
        (RequestBy("splash_fade") <=> AllItemsFinished(sprites))

\* C7 (amended): with N >= 1 items a tick reports all done if and only if
\* every item was already finished when the tick began; the tick in which the
\* last timer runs out reports not done.
C7_DoneNextTick ==
    (Ticked /\ Len(pre) >= 1) =>
        /\ RequestBy("splash_fade") <=> AllItemsFinished(pre)
        /\ (AllItemsFinished(sprites) /\ ~AllItemsFinished(pre))
                => ~RequestBy("splash_fade")

\* C7 witness: two items, all done reported.
C7_Witness ==
    /\ Ticked
    /\ Len(pre) = 2
    /\ AllItemsFinished(pre)
    /\ RequestBy("splash_fade")
    /\ \E i \in 1..2 : TotalDuration(pre[i]) > 0

\* ---------------------------------------------------------------------------
\* The progress-tracked variant (SplashProgressPlugin).  The source declares
\* the plugin and documents it but holds no systems for it; its behaviour is
\* taken from the plugin's documentation: the splash reports "completed" to
\* the progress tracker once all items have timed out or the user has skipped,
\* never changes the state itself, and the tracker changes the state once
\* every tracked contribution is complete.
MaxWork == 2

ProgressState == "AssetsLoading"
ProgressNext == "MainMenu"

\* The skip latch: a skip input counts when the plugin is skippable, and a
\* skipped splash stays skipped for the rest of the run.
ProgressSkipped(was, canSkip, batch) == was \/ (canSkip /\ SkipDone(batch))

\* The completion the splash reports for a frame.
ProgressReport(q, delta, skip) == FadeAllDone(q, delta) \/ skip

\* Variant of TrackerNext: the tracker looks at the splash's report only.
TrackerNext_IgnoresWork(old, done, work) ==
    IF done THEN ProgressNext ELSE old

\* The tracker's decision at the end of a frame: the state changes once the
\* splash and the other tracked work are all complete.
TrackerNext(old, done, work) ==
    IF done /\ work = 0 THEN ProgressNext ELSE old

InitProgress ==
    /\ state = ProgressState
    /\ nextState = None
    /\ splashNext = None
    /\ splashes = TRUE
    /\ cameras = 1
    /\ sprites = EnterSprites("SplashBevy")
    /\ skippable \in BOOLEAN
    /\ panicked = FALSE
    /\ requests = <<>>
    /\ reqCount = 0
    /\ clock = 0
    /\ pre = <<>>
    /\ last = [op |-> "init", delta |-> 0, batch |-> {}]
    /\ report = FALSE
    /\ skipped = FALSE
    /\ otherWork \in 0..MaxWork
    /\ alphas = <<>>

\* One frame of the tracked state: the fade items advance, the skip inputs
\* are read, the splash reports its completion, and the tracker decides.
ProgressTick ==
    /\ state = ProgressState
    /\ nextState = None
    /\ \E delta \in Deltas, batch \in Batches :
        /\ sprites' = FadeLoop(sprites, delta)
        /\ skipped' = ProgressSkipped(skipped, skippable, batch)
        /\ report' = ProgressReport(sprites, delta, skipped')
        /\ nextState' = TrackerNext(nextState, report', otherWork)
        /\ pre' = sprites
        /\ last' = [op |-> "tick", delta |-> delta, batch |-> batch]
    /\ UNCHANGED <<state, splashNext, splashes, cameras, skippable, panicked,
                   requests, reqCount, clock, otherWork, alphas>>

\* Another tracked system gets one unit of its work done.
OtherWorkStep ==
    /\ state = ProgressState
    /\ nextState = None
    /\ otherWork > 0
    /\ otherWork' = otherWork - 1
    /\ UNCHANGED <<state, nextState, splashNext, splashes, cameras, sprites,
                   skippable, panicked, requests, reqCount, clock, pre, last,
                   report, skipped, alphas>>

\* The tracked state is left: the splash entities are destroyed with it.
ProgressExit ==
    /\ state = ProgressState
    /\ nextState # None
    /\ state' = nextState
    /\ nextState' = None
    /\ cameras' = 0
    /\ sprites' = <<>>
    /\ report' = FALSE
    /\ skipped' = FALSE
    /\ pre' = <<>>
    /\ last' = [op |-> "transition", delta |-> 0, batch |-> {}]
    /\ UNCHANGED <<splashNext, splashes, skippable, panicked, requests,
                   reqCount, otherWork, clock, alphas>>

NextProgress == ProgressTick \/ OtherWorkStep \/ ProgressExit

SpecProgress == InitProgress /\ [][NextProgress]_vars

\* C10: the progress-tracked splash never requests a transition itself; a
\* skip makes its own report true, and the state changes only when the other
\* tracked work is complete as well.
C10_NeverTransitionsItself ==
    /\ requests = <<>> /\ reqCount = 0
    /\ nextState # None => (report /\ otherWork = 0)
    /\ skipped => report
    /\ (Ticked /\ skippable /\ \E ev \in last.batch : PressOrStart(ev)) => report

\* C10 witness: the user has skipped before the items finished while other
\* tracked work is incomplete: the report is true and the state stays.
C10_Witness ==
    /\ Ticked
    /\ state = ProgressState
    /\ skipped /\ report
    /\ ~AllItemsFinished(pre)
    /\ otherWork > 0
    /\ nextState = None

\* ---------------------------------------------------------------------------
\* The two systems of a frame of a skippable splash over any query of at most
\* one fade item, the empty query included.
SmallQueries == {q \in FadeQueries : Len(q) <= 1}

InitQuery ==
    /\ state = "SplashIyes"
    /\ nextState = None
    /\ splashNext = EnterNext(state)
    /\ splashes = TRUE
    /\ cameras = 1
    /\ sprites \in SmallQueries
    /\ skippable = TRUE
    /\ panicked = FALSE
    /\ requests = <<>>
    /\ reqCount = 0
    /\ clock = 0
    /\ pre = <<>>
    /\ last = [op |-> "init", delta |-> 0, batch |-> {}]
    /\ report = FALSE
    /\ skipped = FALSE
    /\ otherWork = 0
    /\ alphas = <<>>

QueryTick == Frame(FALSE)

NextQuery == QueryTick

SpecQuery == InitQuery /\ [][NextQuery]_vars

\* C11: in a skippable splash a press/start input makes splash_skip request
\* the transition in the same tick, whatever the items' timers are, also when
\* no item has finished and when there is no item.
C11_PressRequestsSameTick ==
    (Ticked /\ skippable /\ \E ev \in last.batch : PressOrStart(ev)) =>
        /\ RequestBy("splash_skip")
        /\ nextState # None

\* C11 witness: a press/start input in a tick over zero items.
C11_Witness ==
    /\ Ticked
    /\ skippable
    /\ Len(pre) = 0
    /\ \E ev \in last.batch : PressOrStart(ev)
    /\ RequestBy("splash_skip")

\* C11 second case: a press/start input while the only item is unfinished.
C11_WitnessUnfinished ==
    /\ Ticked
    /\ skippable
    /\ Len(pre) = 1 /\ ~AllItemsFinished(sprites)
    /\ \E ev \in last.batch : PressOrStart(ev)
    /\ RequestBy("splash_skip")

\* ---------------------------------------------------------------------------
\* Properties of the fade items (checked under SpecFade)

\* The four stage timers in the order the if-chain of splash_fade visits them.
Stages == <<"timer_wait", "timer_intro", "timer_on", "timer_fade">>

StageTimer(s, k) == s.fade[Stages[k]]

Minimum(a, b) == IF a <= b THEN a ELSE b

\* C12: an item whose four durations are 0 is reported finished by its first
\* tick, so a query of such items is all done on the first tick.
C12_ZeroItemFirstTick ==
    (Ticked /\ Len(pre) >= 1 /\ \A i \in 1..Len(pre) : pre[i] = SpriteNew(0, 0, 0, 0))
        => RequestBy("splash_fade")

\* C14: the alpha of every sprite is a defined number between 0 and 1.
C14_OpacityDefined ==
    \A i \in 1..Len(sprites) :
        /\ sprites[i].alpha[2] > 0
        /\ 0 <= sprites[i].alpha[1]
        /\ sprites[i].alpha[1] <= sprites[i].alpha[2]

\* C15: a stage of duration 0 is never advanced, and it never takes a tick:
\* with a positive delta, an item that has a stage of positive duration with
\* time left gets further in such a stage in every tick.
C15_ZeroStagesSkipped ==
    Ticked =>
        \A i \in 1..Len(pre) :
            /\ \A k \in 1..4 :
                StageTimer(pre[i], k).duration = 0
                    => StageTimer(sprites[i], k) = StageTimer(pre[i], k)
            /\ (/\ last.delta > 0
                /\ \E k \in 1..4 :
                    StageTimer(pre[i], k).elapsed < StageTimer(pre[i], k).duration)
                => \E k \in 1..4 :
                    StageTimer(sprites[i], k).elapsed > StageTimer(pre[i], k).elapsed

\* C16: a tick advances every item exactly once: an unfinished item has
\* exactly one of its timers, one that was not finished, moved on by the delta
\* (saturating at its duration) and its other three timers unchanged; a
\* finished item has no timer changed; no item appears or disappears.
C16_EachItemOnce ==
    Ticked =>
        /\ Len(sprites) = Len(pre)
        /\ \A i \in 1..Len(pre) :
            IF ItemFinished(pre[i])
            THEN sprites[i].fade = pre[i].fade
            ELSE \E k \in 1..4 :
                    /\ ~StageTimer(pre[i], k).finished
                    /\ StageTimer(sprites[i], k).duration = StageTimer(pre[i], k).duration
                    /\ StageTimer(sprites[i], k).elapsed =
                            Minimum(StageTimer(pre[i], k).elapsed + last.delta,
                                    StageTimer(pre[i], k).duration)
                    /\ StageTimer(sprites[i], k) # StageTimer(pre[i], k) \/ last.delta = 0
                    /\ \A j \in 1..4 :
                            j # k => StageTimer(sprites[i], j) = StageTimer(pre[i], j)

\* C16 witness: a tick with a positive delta over a finished and an
\* unfinished item.
C16_Witness ==
    /\ Ticked
    /\ last.delta > 0
    /\ Len(pre) = 2
    /\ ItemFinished(pre[1])
    /\ ~ItemFinished(pre[2])
    /\ sprites[2].fade # pre[2].fade

\* C17: the timer of a later stage has run (elapsed > 0 or finished) only if
\* every earlier stage of positive duration is finished, and a tick leaves
\* every finished timer as it was.
C17_StageOrder ==
    /\ \A i \in 1..Len(sprites) : \A j \in 2..4 : \A k \in 1..(j - 1) :
            (StageTimer(sprites[i], j).elapsed > 0 \/ StageTimer(sprites[i], j).finished)
                => (StageTimer(sprites[i], k).duration = 0
                        \/ StageTimer(sprites[i], k).finished)
    /\ Ticked =>
        \A i \in 1..Len(pre) : \A k \in 1..4 :
            StageTimer(pre[i], k).finished
                => StageTimer(sprites[i], k) = StageTimer(pre[i], k)

\* C17 witness: an item with four stages of positive duration has reached
\* its fade stage.
C17_Witness ==
    /\ Ticked
    /\ \E i \in 1..Len(sprites) :
        /\ \A k \in 1..4 : StageTimer(sprites[i], k).duration > 0
        /\ StageTimer(sprites[i], 4).elapsed > 0

\* ---------------------------------------------------------------------------
\* splash_fade over one fade item with the same delta on every frame; alphas
\* records the alpha of the sprite after each run of the system.

\* 1.0 s and 0.5 s in the time unit of the model (0.25 s).
Second == 4
HalfSecond == 2

RampDurations == FadeDurations \cup {Second}

RampItemTypes ==
    {SpriteNew(w, i, o, f) : w \in RampDurations, i \in RampDurations,
                             o \in RampDurations, f \in RampDurations}

RampDeltas == Deltas \ {0}

InitRamp ==
    /\ state = "SplashBevy"
    /\ nextState = None
    /\ splashNext = "MainMenu"
    /\ splashes = TRUE
    /\ cameras = 1
    /\ \E s \in RampItemTypes : sprites = <<s>>
    /\ skippable = TRUE
    /\ panicked = FALSE
    /\ requests = <<>>
    /\ reqCount = 0
    /\ clock = 0
    /\ pre = <<>>
    /\ \E delta \in RampDeltas : last = [op |-> "init", delta |-> delta, batch |-> {}]
    /\ report = FALSE
    /\ skipped = FALSE
    /\ otherWork = 0
    /\ alphas = <<>>

\* One run of splash_fade with the delta of the run of frames.
RampTick ==
    /\ TickEnabled
    /\ sprites' = FadeLoop(sprites, last.delta)
    /\ requests' = FadeCommands(sprites, last.delta, splashNext)
    /\ nextState' = ApplyNextState(nextState, requests')
    /\ reqCount' = reqCount + Len(requests')
    /\ pre' = sprites
    /\ last' = [last EXCEPT !.op = "tick"]
    /\ alphas' = Append(alphas, sprites'[1].alpha)
    /\ UNCHANGED <<state, splashNext, splashes, cameras, skippable, panicked,
                   clock, progressVars>>

NextRamp == RampTick

SpecRamp == InitRamp /\ [][NextRamp]_vars

\* The item (wait = 1, intro = 1, hold = 1, fade = 1) ticked with delta = 0.5.
RampCase ==
    /\ Len(sprites) = 1
    /\ \A k \in 1..4 : StageTimer(sprites[1], k).duration = Second
    /\ last.delta = HalfSecond

\* The alphas the branches of splash_fade write for that item, tick by tick.
RampComputed ==
    <<Frac(0, 1), Frac(0, 1), Frac(1, 2), Frac(1, 1), Frac(1, 1),
      Frac(1, 1), Frac(1, 2), Frac(0, 1), Frac(0, 1)>>

\* C13 as stated: the item (1, 1, 1, 1) ticked with delta = 0.5 shows the
\* opacities 0, 0, 0, 0.5, 1, 1, 1, 1, 0.5, 0 on its ticks.
C13_ClaimedSequence ==
    LET claimed == <<Frac(0, 1), Frac(0, 1), Frac(0, 1), Frac(1, 2), Frac(1, 1),
                     Frac(1, 1), Frac(1, 1), Frac(1, 1), Frac(1, 2), Frac(0, 1)>>
    IN  RampCase =>
            /\ Len(alphas) <= Len(claimed)
            /\ \A n \in 1..Len(alphas) : alphas[n] = claimed[n]

\* C13 amended: the item (1, 1, 1, 1) ticked with delta = 0.5 shows the
\* opacities 0, 0, 0.5, 1, 1, 1, 0.5, 0 on its first eight ticks; the ninth
\* tick writes nothing (the opacity stays 0) and requests the transition.
C13_RampSequence ==
    RampCase =>
        /\ Len(alphas) <= Len(RampComputed)
        /\ \A n \in 1..Len(alphas) : alphas[n] = RampComputed[n]
        /\ (nextState # None) <=> (Len(alphas) = Len(RampComputed))

\* C13 witness: the item (1, 1, 1, 1) has gone through all its ticks.
C13_Witness ==
    /\ RampCase
    /\ alphas = RampComputed
    /\ RequestBy("splash_fade")

\* ---------------------------------------------------------------------------
\* The chained splashes left alone: frames keep coming with a positive delta,
\* no input that skips arrives (the frames' input is nothing or key releases),
\* and nothing but the plugin requests a state.
\* Bevy runs the state-transition stage and the Update stage in every frame,
\* hence the weak fairness of both actions.
LiveTick ==
    /\ Frame(FALSE)
    /\ last'.delta > 0
    /\ last'.batch \subseteq KeyboardInput
    /\ ~SkipDone(last'.batch)

NextLive == LiveTick \/ Transition

SpecLive == Init /\ [][NextLive]_vars /\ WF_vars(LiveTick) /\ WF_vars(Transition)

\* The order in which the chained phases follow one another.
PhaseOrder ==
    {<<"AssetsLoading", "SplashIyes">>, <<"SplashIyes", "SplashBevy">>,
     <<"SplashBevy", "MainMenu">>}

\* C18: without a skip and with ticks of positive delta, each splash phase
\* eventually has its transition to the configured next phase requested by
\* splash_fade and is eventually left, and the phases follow one another in
\* the order first splash, second splash, main phase.
C18_EventuallyMainPhase ==
    /\ <>(state = "MainMenu")
    /\ [][state' # state =>
            /\ <<state, state'>> \in PhaseOrder
            /\ state \in SplashStates =>
                    /\ state' = splashNext
                    /\ requests = <<[by |-> "splash_fade", target |-> splashNext]>>]_vars

\* C18 witness: the main phase has been entered from the second splash, whose
\* sprites and camera are gone.
C18_Witness ==
    /\ state = "MainMenu"
    /\ ~panicked
    /\ last.op = "transition"
    /\ sprites = <<>>
    /\ cameras = 0

\* ---------------------------------------------------------------------------
\* C19: the phase entered after a splash phase does not depend on the order
\* in which splash_skip and splash_fade ran in the tick: when both request a
\* transition in one tick, they request the same phase.
C19_OrderIndependent ==
    (Ticked /\ RequestBy("splash_skip") /\ RequestBy("splash_fade"))
        => \A i, j \in 1..Len(requests) : requests[i].target = requests[j].target

====
